---- MODULE Spec2Model ----
(***************************************************************************)
(* Invoice-creation workflow of the warehouse module                       *)
(* (src/modules/invoice_creation/routes.py, models.py).                    *)
(*                                                                         *)
(* The persisted state is the four tables of models.py; one action is one  *)
(* HTTP request handled from start to finish (one database transaction:    *)
(* either its commit, or the rollback that the handler or the request      *)
(* teardown performs).  The ERP (SAP B1 service layer) and the requesting   *)
(* user are inputs of each request.                                        *)
(***************************************************************************)
EXTENDS Integers, Sequences, FiniteSets, TLC

\* ----------------------------------------------------------------- bounds
MaxInvoices == 2      \* invoice ids handed out
MaxRows     == 3      \* invoice-line ids (and serial-row ids) handed out
MaxTime     == 2      \* clock ticks
MaxSteps    == 4      \* requests and clock ticks in one behaviour
MaxSessionItems == 3  \* items in the session's list
MaxSessionSteps == 5  \* requests of the session workflow in one behaviour
MaxConcSteps == 6     \* steps of the interleaved requests in one behaviour

\* One clock tick is half an hour; timedelta(hours=1), the cache window of
\* lookup_serial, is two ticks.
HourTicks == 2

\* ------------------------------------------------------------ input sets
\* Requesting users (flask_login current_user): id, role, permissions.
\* Server workers that handle requests at the same time.
Workers == {1, 2}

Users ==
    { [id |-> 1, role |-> "user",    perms |-> {"invoice_creation"}],
      [id |-> 2, role |-> "user",    perms |-> {"invoice_creation"}],
      [id |-> 3, role |-> "manager", perms |-> {"qc_approval"}] }

Serials == {"S1", "S2", "S3", "S4"}

\* What the ERP's serial query answers for each serial when it answers.
\* S2 belongs to another customer than S1 and S3; S2 and S3 are different
\* (item, warehouse) pairs whose codes hold "_"; S4 is a second unit of the
\* item of S1 in the same warehouse.
ErpCatalogue ==
    [s \in Serials |->
        CASE s = "S1" -> [ItemCode |-> "A",   WhsCode |-> "W",   CardCode |-> "C1", BPLid |-> 1]
          [] s = "S2" -> [ItemCode |-> "A_W", WhsCode |-> "W",   CardCode |-> "C2", BPLid |-> 1]
          [] s = "S3" -> [ItemCode |-> "A",   WhsCode |-> "W_W", CardCode |-> "C1", BPLid |-> 2]
          [] s = "S4" -> [ItemCode |-> "A",   WhsCode |-> "W",   CardCode |-> "C1", BPLid |-> 1]]

Customers == {"C1", "C2"}

\* Outcomes of the ERP serial query as the handlers distinguish them.
SerialQueryOutcomes == {"found", "notfound", "http_error", "exception", "offline"}
\* Outcomes of posting an invoice to the ERP.
PostOutcomes == {"noconfig", "login_failed", "201", "non201", "exception"}
\* How the ERP's business partner query ends.
PartnerOutcomes == {"noconfig", "login_failed", "200", "non200", "exception"}

\* Python None / '' for a customer code: every test the handlers make on it
\* is a truth test, which both fail.
NoCustomer == ""
\* SQL NULL in a column the handler never assigned.
Null == "<NULL>"

\* dict.get(key, default) on an ERP answer ({} is the empty function).
EmptyDict == <<>>
Get(d, k, default) == IF k \in DOMAIN d THEN d[k] ELSE default

\* ------------------------------------------------------------------ state
VARIABLES
    invoices,       \* invoice_documents: id -> row
    lines,          \* invoice_lines: set of rows
    serials,        \* invoice_serial_numbers: set of rows
    cache,          \* serial_number_lookups: set of rows
    nextInvoiceId,  \* AUTO_INCREMENT counters
    nextLineId,
    nextSerialId,
    now,            \* clock (ticks)
    erpPost,        \* the POST the request just handled made to the ERP
                    \* Invoices endpoint: <<>> or <<its record>>
    resp,           \* the request just handled and its response
    steps,          \* requests and ticks so far
    session,        \* the Flask session of one browser: whether it has the key
                    \* 'invoice_items', and the list stored under it
    approving,      \* interleaved requests: for each server worker, how far
                    \* its qc_approve request has got, and what it holds
    sapDocs,        \* interleaved requests: per invoice id, how many invoices
                    \* the ERP has created for it
    adding          \* interleaved requests: for each server worker, the
                    \* add_line_item request that has passed its duplicate
                    \* check and has not yet committed

vars == <<invoices, lines, serials, cache, nextInvoiceId, nextLineId,
          nextSerialId, now, erpPost, resp, steps, session, approving, sapDocs,
          adding>>

db == <<invoices, lines, serials, cache>>
ids == <<nextInvoiceId, nextLineId, nextSerialId>>

\* -------------------------------------------------------- faulty variants
\* Wrong versions of checks of the handlers.  Each property below that holds
\* of the handlers must fail when the check it rests on is replaced by its
\* wrong version.
\* no status check at all
Unchecked(i) == FALSE
\* the duplicate query finds nothing
NoExistingItem(i, sn) == {}
\* no unique index on serial_number_lookups.serial_number
AlwaysUnique(rows) == TRUE
\* cleanup selects every invoice
AllInvoices(u) == DOMAIN invoices
\* the rows flushed before an early return are committed with it
KeepStaged(r, invoice_line, serial_item) ==
    /\ lines' = lines \cup {invoice_line}
    /\ serials' = serials \cup {serial_item}
    /\ nextLineId' = nextLineId + 1
    /\ nextSerialId' = nextSerialId + 1
    /\ resp' = r
    /\ erpPost' = <<>>
    /\ UNCHANGED <<invoices, cache, nextInvoiceId, now>>
\* the cascade of a line reaches the serial rows of every line of its invoice
SerialsOfSameInvoice(l) ==
    {s \in serials :
        \E m \in lines : m.id = s.invoice_line_id /\ m.invoice_id = l.invoice_id}
\* the serial rows of an invoice are not found
NoSerials(i) == {}
\* cleanup selects the empty drafts of every user
AnyUsersEmptyDrafts(u) ==
    {i \in DOMAIN invoices :
        invoices[i].status = "draft" /\ {l \in lines : l.invoice_id = i} = {}}
\* the cache query finds no row
NotCached(sn) == {}
\* the new invoice row gets no owner
UnownedInvoice(u, status, customer) ==
    [user_id |-> 0, status |-> status, customer_code |-> customer,
     total_amount |-> 0, sap_doc_entry |-> 0, json_payload |-> <<>>,
     sap_response |-> "", notes |-> "", bpl_id |-> 5]
\* the duplicate test of the session list finds nothing
NotInSession(existing_items, serial_number) == FALSE
\* a row exactly one hour old still counts as fresh
FreshAtOneHour(c) == now - c.last_updated <= HourTicks

\* ---------------------------------------------------------------- queries
InvoiceIds == 1..MaxInvoices
RowIds == 1..MaxRows

\* invoice.lines
LinesOf(i) == {l \in lines : l.invoice_id = i}
\* InvoiceSerialNumber.query.join(InvoiceLine).filter(InvoiceLine.invoice_id == i)
SerialsOf(i) == {s \in serials : \E l \in LinesOf(i) : s.invoice_line_id = l.id}
\* line.serial_numbers
SerialsOfLine(l) == {s \in serials : s.invoice_line_id = l.id}

SetMax(S) == CHOOSE x \in S : \A y \in S : y <= x

RECURSIVE SortById(_)
\* Rows in primary-key order, the order in which the relationship loads them.
SortById(S) ==
    IF S = {} THEN <<>>
    ELSE LET m == CHOOSE r \in S : \A q \in S : r.id <= q.id
         IN <<m>> \o SortById(S \ {m})

\* The response record kept in resp: the handler, the HTTP status and the kind
\* of error.
Response(op, code, err) == [op |-> op, code |-> code, err |-> err]

\* invoice.user_id != current_user.id and current_user.role not in ['admin', 'manager']
AccessDenied(u, i) ==
    invoices[i].user_id # u.id /\ u.role \notin {"admin", "manager"}

\* invoice.status not in ['draft', 'pending_qc']
StatusLocked(i) == invoices[i].status \notin {"draft", "pending_qc"}

\* invoice.status != 'draft'
NotDraft(i) == invoices[i].status # "draft"

\* invoice.status != 'pending_qc'
NotPendingQc(i) == invoices[i].status # "pending_qc"

\* ------------------------------------------------------------------- Init
Init ==
    /\ invoices = <<>>
    /\ lines = {}
    /\ serials = {}
    /\ cache = {}
    /\ nextInvoiceId = 1
    /\ nextLineId = 1
    /\ nextSerialId = 1
    /\ now = 0
    /\ erpPost = <<>>
    /\ steps = 0
    /\ resp = Response("none", 0, "")
    /\ session = [has_items |-> FALSE, invoice_items |-> <<>>]
    /\ approving = [w \in Workers |-> [pc |-> "idle", invoice_id |-> 0, payload |-> <<>>]]
    /\ sapDocs = [i \in InvoiceIds |-> 0]
    /\ adding = [w \in Workers |-> [pc |-> "idle", invoice_id |-> 0, serial_number |-> ""]]

\* --------------------------------------------------------------- handlers
\* A request that ends without a commit: an early return (the request
\* teardown discards the session's uncommitted work) or db.session.rollback()
\* in the except clause.  No POST was made to the ERP Invoices endpoint.
NoCommit(r) ==
    /\ resp' = r
    /\ erpPost' = <<>>
    /\ UNCHANGED <<db, ids, now>>

NewInvoice(u, status, customer) ==
    [user_id |-> u.id, status |-> status, customer_code |-> customer,
     total_amount |-> 0, sap_doc_entry |-> 0, json_payload |-> <<>>,
     sap_response |-> "", notes |-> "", bpl_id |-> 5]

\* POST /create_draft
create_draft(u) ==
    IF "invoice_creation" \notin u.perms
    THEN NoCommit(Response("create_draft", 403, "access"))
    ELSE /\ nextInvoiceId <= MaxInvoices
         /\ invoices' = (nextInvoiceId :> NewInvoice(u, "draft", NoCustomer)) @@ invoices
         /\ nextInvoiceId' = nextInvoiceId + 1
         /\ resp' = Response("create_draft", 200, "")
         /\ erpPost' = <<>>
         /\ UNCHANGED <<lines, serials, cache, nextLineId, nextSerialId, now>>

\* ---- add_line_item
\* The ERP serial query of add_line_item: validation_result.
ValidationResult(sn, o) == IF o = "found" THEN ErpCatalogue[sn] ELSE EmptyDict
\* validation_status: 'validated' on a hit and in offline mode.
ValidationStatus(o) == IF o \in {"found", "offline"} THEN "validated" ELSE "failed"
\* validation_error: None (""), or the message the failing branch sets (the
\* three messages differ in wording only).
ValidationError(o) ==
    IF o \in {"notfound", "http_error", "exception"} THEN "error" ELSE ""

\* The duplicate query: serial rows of this invoice with this serial number.
ExistingItem(i, sn) == {s \in SerialsOf(i) : s.serial_number = sn}

\* Faulty variant: the number of lines of the invoice, plus one.
LineCountPlusOne(i) == Cardinality({l \in lines : l.invoice_id = i}) + 1

\* (max_line or 0) + 1
NextLineNumber(i) ==
    (IF LinesOf(i) = {} THEN 0 ELSE SetMax({l.line_number : l \in LinesOf(i)})) + 1

\* InvoiceLine.query.filter_by(invoice_id=i).count(), run after the new line
\* was added to the session and flushed: the new line is counted.
ExistingLinesCount(i, flushed) == Cardinality({l \in flushed : l.invoice_id = i})

\* The first branch of the freeze logic: set the customer from the serial.
SetsCustomer(card, customer, count) ==
    card # "" /\ customer = NoCustomer /\ count = 0

\* The second branch: the serial's customer differs from the frozen one.
CustomerMismatch(card, customer, count) ==
    customer # NoCustomer /\ count > 0 /\ card # "" /\ card # customer

\* The customer-mismatch return of add_line_item: the line was added and
\* flushed and the serial row added to the session, but nothing was committed;
\* the session is discarded with the request.
RejectStaged(r, invoice_line, serial_item) == NoCommit(r)

\* serial_item.bpl_id = validation_result.get('BPLid', ''): bpl_id is an
\* Integer column.  Whether the INSERT of the empty string succeeds depends on
\* the database: SQLite and MySQL outside strict mode store it (as 0 here),
\* MySQL in strict mode and PostgreSQL refuse it, and the flush raises.
BplIdStores(validation_result) ==
    IF "BPLid" \in DOMAIN validation_result THEN {TRUE} ELSE BOOLEAN

\* add_line_item from the ERP query on: the serial is validated (outcome o),
\* line and serial row are staged, the customer is frozen or compared, commit.
AttachSerial(i, sn, o) ==
    LET R(code, err) == Response("add_line_item", code, err)
        vr == ValidationResult(sn, o)
        invoice_line ==
            [id |-> nextLineId, invoice_id |-> i,
             line_number |-> NextLineNumber(i),
             item_code |-> Get(vr, "ItemCode", "UNKNOWN"),
             warehouse_code |-> Get(vr, "WhsCode", ""),
             quantity |-> 1]
        serial_item ==
            [id |-> nextSerialId, invoice_line_id |-> nextLineId,
             serial_number |-> sn,
             item_code |-> Get(vr, "ItemCode", "UNKNOWN"),
             warehouse_code |-> Get(vr, "WhsCode", ""),
             customer_code |-> "",
             bpl_id |-> Get(vr, "BPLid", 0),
             base_line_number |-> 0,
             quantity |-> 1,
             validation_status |-> ValidationStatus(o),
             validation_error |-> ValidationError(o)]
        count == ExistingLinesCount(i, lines \cup {invoice_line})
        card == Get(vr, "CardCode", "")
        customer == invoices[i].customer_code
    IN
    \E stores \in BplIdStores(vr) :
    IF ~stores THEN NoCommit(R(500, "internal"))
    ELSE IF ~SetsCustomer(card, customer, count) /\ CustomerMismatch(card, customer, count)
    THEN RejectStaged(R(400, "customer_locked"), invoice_line, serial_item)
    ELSE /\ nextLineId <= MaxRows
         /\ lines' = lines \cup {invoice_line}
         /\ serials' = serials \cup {serial_item}
         /\ invoices' = IF SetsCustomer(card, customer, count)
                        THEN [invoices EXCEPT ![i].customer_code = card]
                        ELSE invoices
         /\ nextLineId' = nextLineId + 1
         /\ nextSerialId' = nextSerialId + 1
         /\ resp' = R(200, "")
         /\ erpPost' = <<>>
         /\ UNCHANGED <<cache, nextInvoiceId, now>>

\* POST /<invoice_id>/add_line_item
add_line_item(u, i, sn) ==
    LET R(code, err) == Response("add_line_item", code, err)
    IN
    IF i \notin DOMAIN invoices THEN NoCommit(R(500, "not_found"))
    ELSE IF AccessDenied(u, i) THEN NoCommit(R(403, "access"))
    ELSE IF StatusLocked(i) THEN NoCommit(R(400, "status"))
    ELSE IF sn = "" THEN NoCommit(R(400, "required"))
    ELSE IF ExistingItem(i, sn) # {} THEN NoCommit(R(400, "duplicate"))
    ELSE \E o \in SerialQueryOutcomes : AttachSerial(i, sn, o)

\* ---- remove_line_item
\* DELETE /<invoice_id>/remove_line_item/<item_id>.  db.session.delete of the
\* serial row and of its line; the line's delete-orphan cascade removes every
\* serial row of that line.
\* Faulty variant: any invoice id gives access to the row.
AnyInvoicesItem(invoice_line, i) == FALSE

\* invoice_line.invoice_id != invoice.id
ItemOfOtherInvoice(invoice_line, i) == invoice_line.invoice_id # i

\* Faulty variant: the serial row is deleted and its line is kept.
RemoveSerialRowOnly(u, i, item_id) ==
    LET R(code, err) == Response("remove_line_item", code, err)
        found == {s \in serials : s.id = item_id}
    IN
    IF i \notin DOMAIN invoices \/ found = {} THEN NoCommit(R(500, "not_found"))
    ELSE /\ serials' = serials \ found
         /\ resp' = R(200, "")
         /\ erpPost' = <<>>
         /\ UNCHANGED <<invoices, lines, cache, ids, now>>

remove_line_item(u, i, item_id) ==
    LET R(code, err) == Response("remove_line_item", code, err)
        found == {s \in serials : s.id = item_id}
        serial_item == CHOOSE s \in found : TRUE
        invoice_line == CHOOSE l \in lines : l.id = serial_item.invoice_line_id
    IN
    IF i \notin DOMAIN invoices THEN NoCommit(R(500, "not_found"))
    ELSE IF AccessDenied(u, i) THEN NoCommit(R(403, "access"))
    ELSE IF StatusLocked(i) THEN NoCommit(R(400, "status"))
    ELSE IF found = {} THEN NoCommit(R(500, "not_found"))
    ELSE IF ItemOfOtherInvoice(invoice_line, i) THEN NoCommit(R(400, "not_owned"))
    ELSE /\ serials' = serials \ SerialsOfLine(invoice_line)
         /\ lines' = lines \ {invoice_line}
         /\ resp' = R(200, "")
         /\ erpPost' = <<>>
         /\ UNCHANGED <<invoices, cache, ids, now>>

\* ---- delete_line_item
\* POST /lines/<line_id>/delete.  The handler reads line_item.invoice, but the
\* relationship of models.py gives InvoiceLine the attribute invoice_document
\* only: the read raises AttributeError, the except clause rolls back.
LineHasInvoiceAttribute == FALSE

delete_line_item(u, line_id) ==
    LET R(code, err) == Response("delete_line_item", code, err)
        found == {l \in lines : l.id = line_id}
        line_item == CHOOSE l \in found : TRUE
        i == line_item.invoice_id
    IN
    IF found = {} THEN NoCommit(R(500, "not_found"))
    ELSE IF ~LineHasInvoiceAttribute THEN NoCommit(R(500, "internal"))
    ELSE IF AccessDenied(u, i) THEN NoCommit(R(403, "access"))
    ELSE IF NotDraft(i) THEN NoCommit(R(400, "status"))
    ELSE /\ serials' = serials \ SerialsOfLine(line_item)
         /\ lines' = lines \ {line_item}
         /\ resp' = R(200, "")
         /\ erpPost' = <<>>
         /\ UNCHANGED <<invoices, cache, ids, now>>

\* ---- clear_all_items
\* DELETE /<invoice_id>/clear_all_items
clear_all_items(u, i) ==
    LET R(code, err) == Response("clear_all_items", code, err)
    IN
    IF i \notin DOMAIN invoices THEN NoCommit(R(500, "not_found"))
    ELSE IF AccessDenied(u, i) THEN NoCommit(R(403, "access"))
    ELSE IF StatusLocked(i) THEN NoCommit(R(400, "status"))
    ELSE IF Cardinality(LinesOf(i)) = 0 THEN NoCommit(R(400, "empty"))
    ELSE /\ serials' = serials \ SerialsOf(i)
         /\ lines' = lines \ LinesOf(i)
         /\ invoices' = [invoices EXCEPT ![i].customer_code = NoCustomer]
         /\ resp' = R(200, "")
         /\ erpPost' = <<>>
         /\ UNCHANGED <<cache, ids, now>>

\* ---- cleanup_empty_drafts
\* The drafts the query selects: this user's, in status draft, without lines.
EmptyDrafts(u) ==
    {i \in DOMAIN invoices :
        /\ invoices[i].user_id = u.id
        /\ invoices[i].status = "draft"
        /\ LinesOf(i) = {}}

\* POST /cleanup_empty_drafts
cleanup_empty_drafts(u) ==
    LET R(code, err) == Response("cleanup_empty_drafts", code, err)
    IN
    IF "invoice_creation" \notin u.perms THEN NoCommit(R(403, "access"))
    ELSE /\ invoices' = [i \in DOMAIN invoices \ EmptyDrafts(u) |-> invoices[i]]
         /\ resp' = R(200, "")
         /\ erpPost' = <<>>
         /\ UNCHANGED <<lines, serials, cache, ids, now>>

\* ---- submit_for_qc
\* POST /<invoice_id>/submit_for_qc; customer_code is the optional field of the
\* request body ("" when absent).
submit_for_qc(u, i, customer_code) ==
    LET R(code, err) == Response("submit_for_qc", code, err)
    IN
    IF i \notin DOMAIN invoices THEN NoCommit(R(500, "not_found"))
    ELSE IF AccessDenied(u, i) THEN NoCommit(R(403, "access"))
    ELSE IF NotDraft(i) THEN NoCommit(R(400, "status"))
    ELSE IF LinesOf(i) = {} THEN NoCommit(R(400, "empty"))
    ELSE /\ invoices' =
                [invoices EXCEPT
                    ![i].customer_code = IF customer_code # "" THEN customer_code ELSE @,
                    ![i].status = "pending_qc"]
         /\ resp' = R(200, "")
         /\ erpPost' = <<>>
         /\ UNCHANGED <<lines, serials, cache, ids, now>>

\* ---- the payload of a draft
\* group_key = f"{item_code}_{warehouse_code}"
GroupKey(item_code, warehouse_code) == item_code \o "_" \o warehouse_code

RECURSIVE Concat(_)
Concat(ss) == IF ss = <<>> THEN <<>> ELSE Head(ss) \o Concat(Tail(ss))

\* Faulty variant: only the serial rows of the first line are visited.
SerialItemsOfFirstLine(i) ==
    LET ls == SortById(LinesOf(i))
    IN IF ls = <<>> THEN <<>> ELSE SortById(SerialsOfLine(ls[1]))

\* for line in invoice.lines: for serial_item in line.serial_numbers
SerialItems(i) ==
    LET ls == SortById(LinesOf(i))
    IN Concat([k \in 1..Len(ls) |-> SortById(SerialsOfLine(ls[k]))])

RECURSIVE GroupedItems(_, _)
\* The dict grouped_items, as the sequence of its values in insertion order.
GroupedItems(rows, acc) ==
    IF rows = <<>> THEN acc
    ELSE LET s == Head(rows)
             key == GroupKey(s.item_code, s.warehouse_code)
             hit == {j \in 1..Len(acc) : acc[j].key = key}
             entry == [InternalSerialNumber |-> s.serial_number, Quantity |-> s.quantity]
         IN IF hit = {}
            THEN GroupedItems(Tail(rows),
                    Append(acc, [key |-> key, ItemCode |-> s.item_code,
                                 WarehouseCode |-> s.warehouse_code,
                                 SerialNumbers |-> <<entry>>]))
            ELSE LET j == CHOOSE j \in hit : TRUE
                 IN GroupedItems(Tail(rows),
                       [acc EXCEPT ![j].SerialNumbers = Append(@, entry)])

\* One document line per group; base_line_number counts the groups from 0.
DocumentLines(groups) ==
    [g \in 1..Len(groups) |->
        [ItemCode |-> groups[g].ItemCode,
         WarehouseCode |-> groups[g].WarehouseCode,
         Quantity |-> Len(groups[g].SerialNumbers),
         SerialNumbers |->
            [n \in 1..Len(groups[g].SerialNumbers) |->
                [InternalSerialNumber |-> groups[g].SerialNumbers[n].InternalSerialNumber,
                 Quantity |-> groups[g].SerialNumbers[n].Quantity,
                 BaseLineNumber |-> g - 1]]]]

\* Faulty variant: the branch of the payload is the invoice's own bpl_id.
PayloadWithInvoiceBranch(i) ==
    [BPL_IDAssignedToInvoice |-> invoices[i].bpl_id,
     CardCode |-> invoices[i].customer_code,
     DocumentLines |-> DocumentLines(GroupedItems(SerialItems(i), <<>>))]

\* generate_sap_invoice_json(invoice), for an invoice with a serial row (with
\* none the function raises: serial_item is unbound at the branch fields).
generate_sap_invoice_json(i) ==
    LET rows == SerialItems(i)
        serial_item == rows[Len(rows)]
    IN [BPL_IDAssignedToInvoice |-> serial_item.bpl_id,
        CardCode |-> invoices[i].customer_code,
        DocumentLines |-> DocumentLines(GroupedItems(rows, <<>>))]

\* ---- qc_approve
\* What the ERP answers with a 201.
ErpCreated(i) == [DocEntry |-> 100 + i, DocNum |-> 100 + i, DocTotal |-> 50]

\* post_invoice_to_sap_b1: the request reaches the Invoices endpoint unless
\* the configuration is missing or the login fails.
PostSent(o) == o \in {"201", "non201", "exception"}

\* qc_approve from the ERP call on: post_invoice_to_sap_b1 ends with outcome
\* o; a 201 is recorded on the draft, anything else is answered with a 500.
PostDraft(u, i, o) ==
    LET R(code, err) == Response("qc_approve", code, err)
        sap_invoice_data == generate_sap_invoice_json(i)
        post == [via |-> "qc_approve", invoice_id |-> i,
                 status |-> invoices[i].status,
                 qc |-> "qc_approval" \in u.perms,
                 payload |-> sap_invoice_data, outcome |-> o]
    IN
    /\ erpPost' = IF PostSent(o) THEN <<post>> ELSE <<>>
    /\ IF o = "201"
       THEN /\ invoices' =
                   [invoices EXCEPT
                       ![i].status = "posted",
                       ![i].sap_doc_entry = ErpCreated(i).DocEntry,
                       ![i].sap_response = "201",
                       ![i].json_payload = <<sap_invoice_data>>]
            /\ resp' = R(200, "")
       ELSE /\ invoices' = invoices
            /\ resp' = R(500, "sap")
    /\ UNCHANGED <<lines, serials, cache, ids, now>>

\* POST /<invoice_id>/qc_approve
qc_approve_invoice(u, i) ==
    LET R(code, err) == Response("qc_approve", code, err)
    IN
    IF i \notin DOMAIN invoices THEN NoCommit(R(500, "not_found"))
    ELSE IF "qc_approval" \notin u.perms THEN NoCommit(R(403, "access"))
    ELSE IF NotPendingQc(i) THEN NoCommit(R(400, "status"))
    ELSE IF invoices[i].customer_code = NoCustomer THEN NoCommit(R(400, "no_customer"))
    ELSE IF LinesOf(i) = {} THEN NoCommit(R(400, "empty"))
    ELSE IF SerialItems(i) = <<>> THEN NoCommit(R(500, "internal"))
    ELSE \E o \in PostOutcomes : PostDraft(u, i, o)

\* ---- qc_reject
\* POST /<invoice_id>/qc_reject; reason is the rejection_reason of the JSON
\* body, Null when the body has no such key: data.get applies its default to
\* an absent key only, not to an empty string.
qc_reject_invoice(u, i, reason) ==
    LET R(code, err) == Response("qc_reject", code, err)
        rejection_reason == IF reason = Null THEN "No reason provided" ELSE reason
    IN
    IF i \notin DOMAIN invoices THEN NoCommit(R(500, "not_found"))
    ELSE IF "qc_approval" \notin u.perms THEN NoCommit(R(403, "access"))
    ELSE IF NotPendingQc(i) THEN NoCommit(R(400, "status"))
    ELSE /\ invoices' =
                [invoices EXCEPT
                    ![i].status = "rejected",
                    ![i].notes = "Rejected by QC: " \o rejection_reason]
         /\ resp' = R(200, "")
         /\ erpPost' = <<>>
         /\ UNCHANGED <<lines, serials, cache, ids, now>>

\* ---- the serial lookup cache
\* SerialNumberLookup.query.filter_by(serial_number=sn)
CachedLookup(sn) == {c \in cache : c.serial_number = sn}

\* (datetime.utcnow() - cached_lookup.last_updated) < timedelta(hours=1)
Fresh(c) == now - c.last_updated < HourTicks

NextCacheId == IF cache = {} THEN 1 ELSE SetMax({c.id : c \in cache}) + 1

\* serial_number is declared unique=True: a flush that leaves two rows with
\* one serial number raises IntegrityError.
CacheUnique(rows) ==
    \A c, d \in rows : c.serial_number = d.serial_number => c.id = d.id

\* Faulty variant: a lookup that finds no fresh entry drops the stale one.
LookupEvictingStale(sn) ==
    LET R(code, err) == Response("lookup_serial", code, err)
        hit == CachedLookup(sn)
    IN
    IF sn = "" THEN NoCommit(R(400, "required"))
    ELSE IF hit # {} /\ \A c \in hit : Fresh(c) THEN NoCommit(R(200, "cached"))
    ELSE /\ cache' = cache \ hit
         /\ resp' = R(404, "not_found")
         /\ erpPost' = <<>>
         /\ UNCHANGED <<invoices, lines, serials, ids, now>>

\* POST /api/lookup_serial
lookup_serial(sn) ==
    LET R(code, err) == Response("lookup_serial", code, err)
        hit == CachedLookup(sn)
        cached_lookup == CHOOSE c \in hit : \A d \in hit : c.id <= d.id
        item_data == ErpCatalogue[sn]
        fields(id) ==
            [id |-> id, serial_number |-> sn,
             item_code |-> item_data.ItemCode,
             warehouse_code |-> item_data.WhsCode,
             branch_id |-> item_data.BPLid,
             last_updated |-> now]
    IN
    IF sn = "" THEN NoCommit(R(400, "required"))
    ELSE IF hit # {} /\ Fresh(cached_lookup) THEN NoCommit(R(200, "cached"))
    ELSE \E o \in SerialQueryOutcomes :
        IF o = "offline" THEN NoCommit(R(500, "sap"))
        ELSE IF o = "notfound" THEN NoCommit(R(404, "not_found"))
        ELSE IF o \in {"http_error", "exception"} THEN NoCommit(R(500, "sap"))
        ELSE /\ cache' = IF hit # {}
                         THEN (cache \ {cached_lookup}) \cup {fields(cached_lookup.id)}
                         ELSE cache \cup {fields(NextCacheId)}
             /\ resp' = R(200, "")
             /\ erpPost' = <<>>
             /\ UNCHANGED <<invoices, lines, serials, ids, now>>

\* ---- the read-only ERP queries
\* GET /api/business-partners: every failure of the ERP is answered with
\* success and the (empty) fallback list, marked offline_mode.
get_business_partners ==
    LET R(code, err) == Response("get_business_partners", code, err)
    IN \E o \in PartnerOutcomes :
        IF o = "200" THEN NoCommit(R(200, ""))
        ELSE NoCommit(R(200, "offline"))

\* GET /api/validate-serial-number: a missing configuration, a failed login
\* and an exception are answered with success and empty fallback data; a
\* status other than 200 is answered with a 500; an empty result with
\* success False (and HTTP status 200).
validate_serial_number(sn) ==
    LET R(code, err) == Response("validate_serial_number", code, err)
    IN
    IF sn = "" THEN NoCommit(R(400, "required"))
    ELSE \E o \in SerialQueryOutcomes :
        IF o = "offline" THEN NoCommit(R(200, "offline"))
        ELSE IF o = "found" THEN NoCommit(R(200, ""))
        ELSE IF o = "notfound" THEN NoCommit(R(200, "not_found"))
        ELSE IF o = "http_error" THEN NoCommit(R(500, "sap"))
        ELSE NoCommit(R(200, "offline"))

\* ---- create
\* The request bodies tried: one serial; two serials of different (item,
\* warehouse) pairs; the same serial twice; no customer; no serial.
CreateRequests ==
    { [customer_code |-> "C1", serial_items |-> <<"S1">>],
      [customer_code |-> "C1", serial_items |-> <<"S2", "S3">>],
      [customer_code |-> "C1", serial_items |-> <<"S1", "S1">>],
      [customer_code |-> "",   serial_items |-> <<"S1">>],
      [customer_code |-> "C1", serial_items |-> <<>>] }

\* POST /create with a JSON body {customer_code, serial_items}; each item
\* carries the item data the client got from the ERP for its serial.
create(u, customer_code, serial_items) ==
    LET R(code, err) == Response("create", code, err)
        n == Len(serial_items)
        item_data(k) == ErpCatalogue[serial_items[k]]
        serial_lookups ==
            {[id |-> NextCacheId + k - 1, serial_number |-> serial_items[k],
              item_code |-> item_data(k).ItemCode,
              warehouse_code |-> item_data(k).WhsCode,
              branch_id |-> 0,
              last_updated |-> now] : k \in 1..n}
        invoice_lines ==
            {[id |-> nextLineId + k - 1, invoice_id |-> nextInvoiceId,
              line_number |-> k,
              item_code |-> item_data(k).ItemCode,
              warehouse_code |-> item_data(k).WhsCode,
              quantity |-> 1] : k \in 1..n}
        serial_rows ==
            {[id |-> nextSerialId + k - 1, invoice_line_id |-> nextLineId + k - 1,
              serial_number |-> serial_items[k],
              item_code |-> item_data(k).ItemCode,
              warehouse_code |-> item_data(k).WhsCode,
              customer_code |-> customer_code,
              bpl_id |-> 5,
              base_line_number |-> 0,
              quantity |-> 1,
              validation_status |-> "validated",
              validation_error |-> ""] : k \in 1..n}
    IN
    IF "invoice_creation" \notin u.perms THEN NoCommit(R(302, "access"))
    ELSE IF customer_code = "" THEN NoCommit(R(400, "required"))
    ELSE IF n = 0 THEN NoCommit(R(400, "required"))
    ELSE IF ~CacheUnique(cache \cup serial_lookups) THEN NoCommit(R(500, "internal"))
    ELSE /\ nextInvoiceId <= MaxInvoices
         /\ nextLineId + n - 1 <= MaxRows
         /\ invoices' = (nextInvoiceId :> NewInvoice(u, "draft", customer_code)) @@ invoices
         /\ lines' = lines \cup invoice_lines
         /\ serials' = serials \cup serial_rows
         /\ cache' = cache \cup serial_lookups
         /\ nextInvoiceId' = nextInvoiceId + 1
         /\ nextLineId' = nextLineId + n
         /\ nextSerialId' = nextSerialId + n
         /\ resp' = R(200, "")
         /\ erpPost' = <<>>
         /\ UNCHANGED now

\* ---- create_invoice
\* The request bodies tried: one serial; the same serial twice; serials of
\* two, and of one, group key; no customer; no serial.
DirectRequests ==
    { [customer_code |-> "C1", serial_numbers |-> <<"S1">>],
      [customer_code |-> "C1", serial_numbers |-> <<"S1", "S1">>],
      [customer_code |-> "C1", serial_numbers |-> <<"S1", "S2">>],
      [customer_code |-> "C1", serial_numbers |-> <<"S2", "S3">>],
      [customer_code |-> "",   serial_numbers |-> <<"S1">>],
      [customer_code |-> "C1", serial_numbers |-> <<>>] }
RECURSIVE ItemsData(_, _)
\* The dict items_data of create_invoice, as the sequence of its values in
\* insertion order.  Every serial is cached (the caller checked).  line_number
\* is still 0 while the serial entries are built.
ItemsData(serial_numbers, acc) ==
    IF serial_numbers = <<>> THEN acc
    ELSE LET sn == Head(serial_numbers)
             hitc == CachedLookup(sn)
             cached_lookup == CHOOSE c \in hitc : \A d \in hitc : c.id <= d.id
             key == GroupKey(cached_lookup.item_code, cached_lookup.warehouse_code)
             hit == {j \in 1..Len(acc) : acc[j].key = key}
             entry == [InternalSerialNumber |-> sn, Quantity |-> 1, BaseLineNumber |-> 0]
         IN IF hit = {}
            THEN ItemsData(Tail(serial_numbers),
                    Append(acc, [key |-> key, ItemCode |-> cached_lookup.item_code,
                                 WarehouseCode |-> cached_lookup.warehouse_code,
                                 BPL_IDAssignedToInvoice |-> cached_lookup.branch_id,
                                 SerialNumbers |-> <<entry>>]))
            ELSE LET j == CHOOSE j \in hit : TRUE
                 IN ItemsData(Tail(serial_numbers),
                       [acc EXCEPT ![j].SerialNumbers = Append(@, entry)])

\* sap_invoice of create_invoice
DirectInvoicePayload(customer_code, groups) ==
    [BPL_IDAssignedToInvoice |-> groups[1].BPL_IDAssignedToInvoice,
     CardCode |-> customer_code,
     DocumentLines |->
        [g \in 1..Len(groups) |->
            [ItemCode |-> groups[g].ItemCode,
             WarehouseCode |-> groups[g].WarehouseCode,
             Quantity |-> Len(groups[g].SerialNumbers),
             SerialNumbers |-> groups[g].SerialNumbers]]]

\* The InvoiceLine rows create_invoice adds, one per group.
DirectInvoiceLines(i, groups) ==
    {[id |-> nextLineId + g - 1, invoice_id |-> i, line_number |-> g - 1,
      item_code |-> groups[g].ItemCode,
      warehouse_code |-> groups[g].WarehouseCode,
      quantity |-> Len(groups[g].SerialNumbers)] : g \in 1..Len(groups)}

\* Serial rows before group g.
RowsBefore(groups, g) ==
    LET S == {h \in 1..Len(groups) : h < g}
        RECURSIVE Sum(_)
        Sum(T) == IF T = {} THEN 0
                  ELSE LET h == CHOOSE h \in T : TRUE
                       IN Len(groups[h].SerialNumbers) + Sum(T \ {h})
    IN Sum(S)

\* The InvoiceSerialNumber rows create_invoice adds: it assigns the line, the
\* serial number, base_line_number and quantity, and nothing else.
DirectInvoiceSerials(groups) ==
    UNION {
        {[id |-> nextSerialId + RowsBefore(groups, g) + n - 1,
          invoice_line_id |-> nextLineId + g - 1,
          serial_number |-> groups[g].SerialNumbers[n].InternalSerialNumber,
          item_code |-> Null,
          warehouse_code |-> Null,
          customer_code |-> Null,
          bpl_id |-> 5,
          base_line_number |-> groups[g].SerialNumbers[n].BaseLineNumber,
          quantity |-> groups[g].SerialNumbers[n].Quantity,
          validation_status |-> "pending",
          validation_error |-> ""] : n \in 1..Len(groups[g].SerialNumbers)} :
        g \in 1..Len(groups)}

\* InvoiceSerialNumber.item_code is declared nullable=False: the flush of a
\* row without it raises IntegrityError.
SerialRowsValid(rows) == \A r \in rows : r.item_code # Null

\* create_invoice from the ERP login on, with the outcome o of the ERP.
PostDirect(u, customer_code, serial_numbers, o) ==
    LET R(code, err) == Response("create_invoice", code, err)
        groups == ItemsData(serial_numbers, <<>>)
        sap_invoice == DirectInvoicePayload(customer_code, groups)
        new_lines == DirectInvoiceLines(nextInvoiceId, groups)
        new_serials == DirectInvoiceSerials(groups)
        post == [via |-> "create_invoice", invoice_id |-> nextInvoiceId,
                 status |-> "draft",
                 qc |-> "qc_approval" \in u.perms,
                 payload |-> sap_invoice, outcome |-> o]
        invoice == [NewInvoice(u, "draft", customer_code) EXCEPT
                        !.json_payload = <<sap_invoice>>,
                        !.status = IF o = "201" THEN "created" ELSE "failed",
                        !.sap_response = o,
                        !.sap_doc_entry =
                            IF o = "201" THEN ErpCreated(nextInvoiceId).DocEntry ELSE 0,
                        !.total_amount =
                            IF o = "201" THEN ErpCreated(nextInvoiceId).DocTotal ELSE 0]
    IN
    \* sap.ensure_logged_in() fails
    IF ~PostSent(o) THEN NoCommit(R(500, "sap"))
    ELSE /\ erpPost' = <<post>>
         /\ IF ~SerialRowsValid(new_serials)
            \* the commit after the ERP's answer raises, and so does the commit
            \* of the except clause; the outer except clause rolls back
            THEN /\ resp' = R(500, "internal")
                 /\ UNCHANGED <<db, ids, now>>
            ELSE /\ nextInvoiceId <= MaxInvoices
                 /\ nextLineId + Len(groups) - 1 <= MaxRows
                 /\ invoices' = (nextInvoiceId :> invoice) @@ invoices
                 /\ lines' = lines \cup new_lines
                 /\ serials' = serials \cup new_serials
                 /\ nextInvoiceId' = nextInvoiceId + 1
                 /\ nextLineId' = nextLineId + Len(groups)
                 /\ nextSerialId' = nextSerialId + Len(serial_numbers)
                 /\ resp' = IF o = "201" THEN R(200, "") ELSE R(500, "sap")
                 /\ UNCHANGED <<cache, now>>

\* POST /api/create_invoice
create_invoice(u, customer_code, serial_numbers) ==
    LET R(code, err) == Response("create_invoice", code, err)
        uncached == {k \in 1..Len(serial_numbers) : CachedLookup(serial_numbers[k]) = {}}
        groups == ItemsData(serial_numbers, <<>>)
    IN
    IF customer_code = "" THEN NoCommit(R(400, "required"))
    ELSE IF serial_numbers = <<>> THEN NoCommit(R(400, "required"))
    ELSE IF uncached # {} THEN NoCommit(R(400, "not_cached"))
    \* the flush for the second line writes the serial rows of the first
    ELSE IF Len(groups) > 1 /\ ~SerialRowsValid(DirectInvoiceSerials(groups))
         THEN NoCommit(R(500, "internal"))
    ELSE \E o \in PostOutcomes : PostDirect(u, customer_code, serial_numbers, o)

\* ---- time
\* Time passes.  Only cache rows carry a time, so the clock starts with the
\* first cache row.
Tick ==
    /\ cache # {}
    /\ now < MaxTime
    /\ now' = now + 1
    /\ resp' = Response("tick", 0, "")
    /\ erpPost' = <<>>
    /\ UNCHANGED <<db, ids>>

\* ---- the session workflow
\* The request bodies of add-serial-item tried: for each serial (and for no
\* serial) one body carrying the validation data the client got from
\* validate-serial-number, and one carrying the serial number only.
SessionRequests ==
    { [serial_number |-> sn,
       item_code |-> ErpCatalogue[sn].ItemCode,
       warehouse_code |-> ErpCatalogue[sn].WhsCode,
       customer_code |-> ErpCatalogue[sn].CardCode] : sn \in Serials }
    \cup
    { [serial_number |-> sn, item_code |-> "", warehouse_code |-> "",
       customer_code |-> ""] : sn \in Serials \cup {""} }

\* any(item['serial_number'] == serial_number for item in existing_items)
InSession(existing_items, serial_number) ==
    \E k \in 1..Len(existing_items) : existing_items[k].serial_number = serial_number

\* The item data after the handler's own validation, which runs when the body
\* has no item_code: the ERP's row when it finds one, the fallback item code
\* when it finds none, the body's (empty) data on every failure.
SessionItemData(data, o) ==
    IF data.item_code # "" THEN data
    ELSE IF o = "found"
         THEN [data EXCEPT
                 !.item_code = ErpCatalogue[data.serial_number].ItemCode,
                 !.warehouse_code = ErpCatalogue[data.serial_number].WhsCode,
                 !.customer_code = ErpCatalogue[data.serial_number].CardCode]
    ELSE IF o = "notfound" THEN [data EXCEPT !.item_code = "MI Phone"]
    ELSE data

\* Session handlers touch neither the database nor the ERP Invoices endpoint.
SessionOnly(r) ==
    /\ resp' = r
    /\ erpPost' = <<>>
    /\ UNCHANGED <<db, ids, now>>

\* POST /add-serial-item
add_serial_item(data) ==
    LET R(code, err) == Response("add_serial_item", code, err)
        existing_items == session.invoice_items
    IN
    IF data.serial_number = ""
    THEN SessionOnly(R(400, "required")) /\ UNCHANGED session
    ELSE IF InSession(existing_items, data.serial_number)
    THEN /\ SessionOnly(R(400, "duplicate"))
         /\ session' = [session EXCEPT !.has_items = TRUE]
    ELSE \E o \in SerialQueryOutcomes :
        LET d == SessionItemData(data, o)
            item_data ==
                [id |-> Len(existing_items) + 1,
                 serial_number |-> d.serial_number,
                 item_code |-> d.item_code,
                 warehouse_code |-> d.warehouse_code,
                 customer_code |-> d.customer_code,
                 line_number |-> Len(existing_items) + 1]
        IN /\ Len(existing_items) < MaxSessionItems
           /\ session' = [has_items |-> TRUE,
                          invoice_items |-> Append(existing_items, item_data)]
           /\ SessionOnly(R(200, ""))

\* POST /remove-serial-item/<item_id>
remove_serial_item(item_id) ==
    LET R(code, err) == Response("remove_serial_item", code, err)
        existing_items == session.invoice_items
        kept == SelectSeq(existing_items, LAMBDA item : item.id # item_id)
    IN
    IF ~session.has_items
    THEN SessionOnly(R(400, "empty")) /\ UNCHANGED session
    ELSE /\ session' = [session EXCEPT !.invoice_items = kept]
         /\ IF Len(kept) < Len(existing_items)
            THEN SessionOnly(R(200, ""))
            ELSE SessionOnly(R(404, "not_found"))

\* POST /clear-session-items
clear_session_items ==
    /\ session' = [has_items |-> FALSE, invoice_items |-> <<>>]
    /\ SessionOnly(Response("clear_session_items", 200, ""))

\* ------------------------------------------------------------------- Next
\* One more request or tick of the database workflow, whose handlers do not
\* use the session.
Count ==
    /\ steps < MaxSteps
    /\ steps' = steps + 1
    /\ UNCHANGED <<session, approving, sapDocs, adding>>

Next ==
    \/ \E u \in Users : Count /\ create_draft(u)
    \/ \E u \in Users, i \in InvoiceIds, sn \in Serials \cup {""} :
          Count /\ add_line_item(u, i, sn)
    \/ \E u \in Users, i \in InvoiceIds, item_id \in RowIds :
          Count /\ remove_line_item(u, i, item_id)
    \/ \E u \in Users, line_id \in RowIds : Count /\ delete_line_item(u, line_id)
    \/ \E u \in Users, i \in InvoiceIds : Count /\ clear_all_items(u, i)
    \/ \E u \in Users : Count /\ cleanup_empty_drafts(u)
    \/ \E u \in Users, i \in InvoiceIds, c \in Customers \cup {""} :
          Count /\ submit_for_qc(u, i, c)
    \/ \E u \in Users, i \in InvoiceIds : Count /\ qc_approve_invoice(u, i)
    \/ \E u \in Users, i \in InvoiceIds, reason \in {Null, "", "damaged"} :
          Count /\ qc_reject_invoice(u, i, reason)
    \/ \E sn \in Serials \cup {""} : Count /\ lookup_serial(sn)
    \/ Count /\ get_business_partners
    \/ \E sn \in Serials \cup {""} : Count /\ validate_serial_number(sn)
    \/ \E u \in Users, r \in CreateRequests :
          Count /\ create(u, r.customer_code, r.serial_items)
    \/ \E u \in Users, r \in DirectRequests :
          Count /\ create_invoice(u, r.customer_code, r.serial_numbers)
    \/ Count /\ Tick

Spec == Init /\ [][Next]_vars

\* The session workflow on its own.
SessionCount ==
    /\ steps < MaxSessionSteps
    /\ steps' = steps + 1
    /\ UNCHANGED <<approving, sapDocs, adding>>

SessionNext ==
    \/ \E data \in SessionRequests : SessionCount /\ add_serial_item(data)
    \/ \E item_id \in 1..MaxSessionItems : SessionCount /\ remove_serial_item(item_id)
    \/ SessionCount /\ clear_session_items

SessionSpec == Init /\ [][SessionNext]_vars

\* ---- qc_approve requests handled at the same time
\* Each worker runs qc_approve_invoice in three steps, between which the other
\* worker may run: the checks and the payload (up to the ERP call), the ERP
\* call, and the commit.  Nothing in the handler locks the invoice row or
\* re-reads its status after the ERP call.
\* The database after create_draft, add_line_item of S1 and submit_for_qc
\* with customer C1 by user 1: one invoice in pending_qc.
ConcInvoices == (1 :> NewInvoice([id |-> 1], "pending_qc", "C1"))
ConcLines ==
    {[id |-> 1, invoice_id |-> 1, line_number |-> 1, item_code |-> "A",
      warehouse_code |-> "W", quantity |-> 1]}
ConcSerials ==
    {[id |-> 1, invoice_line_id |-> 1, serial_number |-> "S1", item_code |-> "A",
      warehouse_code |-> "W", customer_code |-> "", bpl_id |-> 1,
      base_line_number |-> 0, quantity |-> 1, validation_status |-> "validated",
      validation_error |-> ""]}

ConcInit ==
    /\ invoices = ConcInvoices
    /\ lines = ConcLines
    /\ serials = ConcSerials
    /\ cache = {}
    /\ nextInvoiceId = 2
    /\ nextLineId = 2
    /\ nextSerialId = 2
    /\ now = 0
    /\ erpPost = <<>>
    /\ steps = 0
    /\ resp = Response("none", 0, "")
    /\ session = [has_items |-> FALSE, invoice_items |-> <<>>]
    /\ approving = [w \in Workers |-> [pc |-> "idle", invoice_id |-> 0, payload |-> <<>>]]
    /\ sapDocs = [i \in InvoiceIds |-> 0]
    /\ adding = [w \in Workers |-> [pc |-> "idle", invoice_id |-> 0, serial_number |-> ""]]

ConcCount ==
    /\ steps < MaxConcSteps
    /\ steps' = steps + 1
    /\ UNCHANGED <<session, ids, now, lines, serials, cache, adding>>

Idle == [pc |-> "idle", invoice_id |-> 0, payload |-> <<>>]

\* qc_approve_invoice up to the ERP call: the checks, then the payload.
approve_check(w, u, i) ==
    LET R(code, err) == Response("qc_approve", code, err)
        refuse(r) == /\ resp' = r
                     /\ UNCHANGED approving
    IN
    /\ approving[w].pc = "idle"
    /\ erpPost' = <<>>
    /\ UNCHANGED <<invoices, sapDocs>>
    /\ IF i \notin DOMAIN invoices THEN refuse(R(500, "not_found"))
       ELSE IF "qc_approval" \notin u.perms THEN refuse(R(403, "access"))
       ELSE IF NotPendingQc(i) THEN refuse(R(400, "status"))
       ELSE IF invoices[i].customer_code = NoCustomer THEN refuse(R(400, "no_customer"))
       ELSE IF LinesOf(i) = {} THEN refuse(R(400, "empty"))
       ELSE IF SerialItems(i) = <<>> THEN refuse(R(500, "internal"))
       ELSE /\ approving' = [approving EXCEPT ![w] =
                    [pc |-> "posting", invoice_id |-> i,
                     payload |-> <<generate_sap_invoice_json(i)>>]]
            /\ resp' = Response("qc_approve", 0, "running")

\* post_invoice_to_sap_b1 with outcome o: on a 201 the ERP has created an
\* invoice; on anything else the handler answers 500.
approve_post(w, o) ==
    LET i == approving[w].invoice_id
    IN
    /\ approving[w].pc = "posting"
    /\ erpPost' = IF PostSent(o)
                  THEN <<[via |-> "qc_approve", invoice_id |-> i,
                          status |-> "pending_qc", qc |-> TRUE,
                          payload |-> approving[w].payload[1], outcome |-> o]>>
                  ELSE <<>>
    /\ UNCHANGED invoices
    /\ IF o = "201"
       THEN /\ sapDocs' = [sapDocs EXCEPT ![i] = @ + 1]
            /\ approving' = [approving EXCEPT ![w].pc = "committing"]
            /\ resp' = Response("qc_approve", 0, "running")
       ELSE /\ sapDocs' = sapDocs
            /\ approving' = [approving EXCEPT ![w] = Idle]
            /\ resp' = Response("qc_approve", 500, "sap")

\* The assignments and db.session.commit() after a 201; the commit may fail
\* (the except clause then rolls back and answers 500).
approve_commit(w, committed) ==
    LET i == approving[w].invoice_id
    IN
    /\ approving[w].pc = "committing"
    /\ erpPost' = <<>>
    /\ UNCHANGED sapDocs
    /\ approving' = [approving EXCEPT ![w] = Idle]
    /\ IF committed
       THEN /\ invoices' =
                   [invoices EXCEPT
                       ![i].status = "posted",
                       ![i].sap_doc_entry = ErpCreated(i).DocEntry,
                       ![i].sap_response = "201",
                       ![i].json_payload = approving[w].payload]
            /\ resp' = Response("qc_approve", 200, "")
       ELSE /\ invoices' = invoices
            /\ resp' = Response("qc_approve", 500, "internal")

ConcNext ==
    \/ \E w \in Workers, u \in Users, i \in InvoiceIds :
          ConcCount /\ approve_check(w, u, i)
    \/ \E w \in Workers, o \in PostOutcomes : ConcCount /\ approve_post(w, o)
    \/ \E w \in Workers, committed \in BOOLEAN : ConcCount /\ approve_commit(w, committed)

ConcSpec == ConcInit /\ [][ConcNext]_vars

\* ---- add_line_item requests handled at the same time
\* Each worker runs add_line_item in two steps, between which the other
\* worker may run: the checks up to the duplicate query, and the rest (ERP
\* validation, the inserts, the commit).  The handler takes no lock, and
\* neither models.py nor the tables add_line_item can write to declare a
\* unique key on the serial rows or on the line numbers.  The reads of the
\* second step see the rows committed by then.
AddCount ==
    /\ steps < MaxConcSteps
    /\ steps' = steps + 1
    /\ UNCHANGED <<session, approving, sapDocs>>

NotAdding == [pc |-> "idle", invoice_id |-> 0, serial_number |-> ""]

\* add_line_item up to and including the duplicate query.
add_check(w, u, i, sn) ==
    LET R(code, err) == Response("add_line_item", code, err)
    IN
    /\ adding[w].pc = "idle"
    /\ IF i \notin DOMAIN invoices THEN NoCommit(R(500, "not_found")) /\ UNCHANGED adding
       ELSE IF AccessDenied(u, i) THEN NoCommit(R(403, "access")) /\ UNCHANGED adding
       ELSE IF StatusLocked(i) THEN NoCommit(R(400, "status")) /\ UNCHANGED adding
       ELSE IF sn = "" THEN NoCommit(R(400, "required")) /\ UNCHANGED adding
       ELSE IF ExistingItem(i, sn) # {} THEN NoCommit(R(400, "duplicate")) /\ UNCHANGED adding
       ELSE /\ NoCommit(Response("add_line_item", 0, "running"))
            /\ adding' = [adding EXCEPT ![w] =
                   [pc |-> "attaching", invoice_id |-> i, serial_number |-> sn]]

\* add_line_item from the ERP validation to the commit.
add_attach(w, o) ==
    /\ adding[w].pc = "attaching"
    /\ AttachSerial(adding[w].invoice_id, adding[w].serial_number, o)
    /\ adding' = [adding EXCEPT ![w] = NotAdding]

AddNext ==
    \/ \E u \in Users : AddCount /\ create_draft(u) /\ UNCHANGED adding
    \/ \E w \in Workers, u \in Users, i \in InvoiceIds, sn \in Serials \cup {""} :
          AddCount /\ add_check(w, u, i, sn)
    \/ \E w \in Workers, o \in SerialQueryOutcomes : AddCount /\ add_attach(w, o)

AddSpec == Init /\ [][AddNext]_vars

\* ================================================================= claims
Mutable == {"draft", "pending_qc"}
Attached(i, sn) == \E s \in SerialsOf(i) : s.serial_number = sn
\* The customer the ERP resolves a serial to.
ResolvedCustomer(sn) == ErpCatalogue[sn].CardCode

\* C1: when add_line_item attaches, to a draft without customer and without
\* lines, a serial the ERP resolves to customer C, the draft's customer becomes
\* C; and on a draft with lines and customer C, add_line_item of a serial the
\* ERP resolves to another customer is refused as customer-locked and the
\* customer stays C.
C1_FirstAddFreezesCustomer ==
    [][\A u \in Users, i \in InvoiceIds, sn \in Serials :
        /\ ( /\ i \in DOMAIN invoices
              /\ invoices[i].customer_code = NoCustomer
              /\ LinesOf(i) = {}
              /\ add_line_item(u, i, sn)
              /\ AttachSerial(i, sn, "found")
              /\ resp'.code = 200 )
           => invoices'[i].customer_code = ResolvedCustomer(sn)
        /\ ( /\ i \in DOMAIN invoices
              /\ invoices[i].customer_code # NoCustomer
              /\ LinesOf(i) # {}
              /\ ~AccessDenied(u, i)
              /\ invoices[i].status \in Mutable
              /\ ~Attached(i, sn)
              /\ ResolvedCustomer(sn) # invoices[i].customer_code
              /\ add_line_item(u, i, sn)
              /\ AttachSerial(i, sn, "found") )
           => /\ resp'.code = 400 /\ resp'.err = "customer_locked"
              /\ UNCHANGED invoices
    ]_vars

\* C2: a customer code that is set changes only through clear_all_items, which
\* unsets it.
C2_CustomerChangesOnlyByClear ==
    [][\A i \in DOMAIN invoices :
        ( /\ invoices[i].customer_code # NoCustomer
          /\ i \in DOMAIN invoices'
          /\ invoices'[i].customer_code # invoices[i].customer_code )
        => /\ resp'.op = "clear_all_items"
           /\ invoices'[i].customer_code = NoCustomer
    ]_vars

\* C3: add_line_item with a serial that is already attached to the draft fails
\* and leaves invoices, lines and serial rows as they were; for a requester with
\* access to a draft in status draft or pending_qc the failure is the 400
\* duplicate error.
C3_DuplicateSerialRejected ==
    [][\A u \in Users, i \in InvoiceIds, sn \in Serials :
        ( /\ i \in DOMAIN invoices
          /\ Attached(i, sn)
          /\ add_line_item(u, i, sn) )
        => /\ UNCHANGED <<invoices, lines, serials>>
           /\ resp'.code >= 400
           /\ (~AccessDenied(u, i) /\ invoices[i].status \in Mutable)
                 => (resp'.code = 400 /\ resp'.err = "duplicate")
    ]_vars

\* A duplicate add was refused.
C3_Witness ==
    /\ resp.op = "add_line_item" /\ resp.err = "duplicate"
    /\ \E i \in DOMAIN invoices : SerialsOf(i) # {}

\* C4: in every state, no invoice has two serial rows with one serial number.
C4_SerialAttachedOnce ==
    \A i \in DOMAIN invoices :
        \A s, r \in SerialsOf(i) : s.serial_number = r.serial_number => s.id = r.id

\* An invoice that create built, to which add_line_item attached a second
\* serial.
C4_Witness ==
    /\ resp.op = "add_line_item" /\ resp.code = 200
    /\ \E i \in DOMAIN invoices :
          /\ Cardinality(SerialsOf(i)) = 2
          /\ \E s \in SerialsOf(i) : s.bpl_id = 5

\* C5: on an invoice whose status is neither draft nor pending_qc,
\* add_line_item, remove_line_item and clear_all_items change no row; the
\* response is the 400 status error (403 for a requester without access).
C5_LockedStatusRefusesLineChanges ==
    [][\A u \in Users, i \in InvoiceIds :
        ( /\ i \in DOMAIN invoices
          /\ invoices[i].status \notin Mutable
          /\ \/ \E sn \in Serials \cup {""} : add_line_item(u, i, sn)
             \/ \E item_id \in RowIds : remove_line_item(u, i, item_id)
             \/ clear_all_items(u, i) )
        => /\ UNCHANGED db
           /\ IF AccessDenied(u, i)
              THEN resp'.code = 403
              ELSE resp'.code = 400 /\ resp'.err = "status"
    ]_vars

\* clear_all_items was refused on a posted invoice (every invoice there is was
\* posted).
C5_Witness ==
    /\ resp.op = "clear_all_items" /\ resp.err = "status"
    /\ DOMAIN invoices # {}
    /\ \A i \in DOMAIN invoices : invoices[i].status = "posted"

\* C6: an invoice in status posted or rejected stays, with its status, its
\* customer, its lines and its serial rows, whatever happens next.
C6_PostedRejectedImmutable ==
    [][\A i \in DOMAIN invoices :
        invoices[i].status \in {"posted", "rejected"}
        => /\ i \in DOMAIN invoices'
           /\ invoices'[i].status = invoices[i].status
           /\ invoices'[i].customer_code = invoices[i].customer_code
           /\ {l \in lines' : l.invoice_id = i} = LinesOf(i)
           /\ {s \in serials' : \E l \in LinesOf(i) : s.invoice_line_id = l.id}
                 = SerialsOf(i)
    ]_vars

\* submit_for_qc, qc_approve or qc_reject was refused on a rejected invoice
\* (every invoice there is was rejected).
C6_Witness ==
    /\ resp.op \in {"submit_for_qc", "qc_approve", "qc_reject"}
    /\ resp.err = "status"
    /\ DOMAIN invoices # {}
    /\ \A i \in DOMAIN invoices : invoices[i].status = "rejected"

\* C7: when qc_approve of a pending_qc invoice with customer and lines gets a
\* failure from the ERP, the invoice's status becomes failed and the error is
\* stored on it.
C7_ErpFailureMarksFailed ==
    [][\A u \in Users, i \in InvoiceIds, o \in PostOutcomes \ {"201"} :
        ( /\ i \in DOMAIN invoices
          /\ "qc_approval" \in u.perms
          /\ invoices[i].status = "pending_qc"
          /\ invoices[i].customer_code # NoCustomer
          /\ LinesOf(i) # {}
          /\ qc_approve_invoice(u, i)
          /\ PostDraft(u, i, o) )
        => /\ invoices'[i].status = "failed"
           /\ invoices'[i].sap_response # ""
    ]_vars

StatusChanges ==
    { <<"draft", "pending_qc">>, <<"pending_qc", "posted">>,
      <<"pending_qc", "rejected">>, <<"pending_qc", "failed">> }

\* C8: an invoice's status changes only from draft to pending_qc and from
\* pending_qc to posted, rejected or failed; so posted, rejected and failed are
\* final and no invoice returns to draft.
C8_StatusTransitions ==
    [][\A i \in DOMAIN invoices \cap DOMAIN invoices' :
        invoices'[i].status # invoices[i].status
        => <<invoices[i].status, invoices'[i].status>> \in StatusChanges
    ]_vars

\* An invoice went from draft through pending_qc to posted.
C8_Witness ==
    /\ resp = Response("qc_approve", 200, "")
    /\ \E i \in DOMAIN invoices : invoices[i].status = "posted"

\* C9: every POST to the ERP Invoices endpoint is made by qc_approve, for an
\* invoice in status pending_qc, on the request of a user with the qc_approval
\* permission.
C9_PostOnlyThroughQc ==
    erpPost # <<>>
    => /\ erpPost[1].via = "qc_approve"
       /\ erpPost[1].status = "pending_qc"
       /\ erpPost[1].qc

Pair(s) == <<s.item_code, s.warehouse_code>>
\* The position of the first row of a pair.
FirstSeen(rows, pair) ==
    CHOOSE k \in 1..Len(rows) :
        Pair(rows[k]) = pair /\ \A j \in 1..(k - 1) : Pair(rows[j]) # pair

\* C10: the payload of an invoice has one document line per distinct (item
\* code, warehouse code) pair of its serial rows, in first-seen order; the
\* quantity of a line is the number of serial rows of its pair, and its serial
\* entries carry the line's index.
C10_PayloadGroupsByPair ==
    \A i \in DOMAIN invoices :
        SerialsOf(i) # {} =>
        LET rows == SerialItems(i)
            doc == generate_sap_invoice_json(i).DocumentLines
            pairs == {Pair(rows[k]) : k \in 1..Len(rows)}
        IN /\ Len(doc) = Cardinality(pairs)
           /\ \A g \in 1..Len(doc) :
                LET pair == <<doc[g].ItemCode, doc[g].WarehouseCode>>
                IN /\ doc[g].Quantity
                        = Cardinality({k \in 1..Len(rows) : Pair(rows[k]) = pair})
                   /\ Len(doc[g].SerialNumbers) = doc[g].Quantity
                   /\ \A n \in 1..Len(doc[g].SerialNumbers) :
                        doc[g].SerialNumbers[n].BaseLineNumber = g - 1
                   /\ \A h \in 1..(g - 1) :
                        FirstSeen(rows, <<doc[h].ItemCode, doc[h].WarehouseCode>>)
                            < FirstSeen(rows, pair)

\* The bodies of DirectRequests that pass create_invoice's checks in this state.
Buildable ==
    {r \in DirectRequests :
        /\ r.customer_code # ""
        /\ r.serial_numbers # <<>>
        /\ \A k \in 1..Len(r.serial_numbers) : CachedLookup(r.serial_numbers[k]) # {}}

\* C11: in the payload create_invoice builds, every serial entry carries the
\* zero-based index of its document line; and every serial row the handler
\* adds carries the line_number of the line it adds it to.
C11_DirectBaseLineNumbers ==
    \A r \in Buildable :
        LET groups == ItemsData(r.serial_numbers, <<>>)
            doc == DirectInvoicePayload(r.customer_code, groups).DocumentLines
            new_lines == DirectInvoiceLines(nextInvoiceId, groups)
        IN /\ \A g \in 1..Len(doc) : \A n \in 1..Len(doc[g].SerialNumbers) :
                doc[g].SerialNumbers[n].BaseLineNumber = g - 1
           /\ \A s \in DirectInvoiceSerials(groups) : \A l \in new_lines :
                s.invoice_line_id = l.id => s.base_line_number = l.line_number

\* C12: for a requester with access, submit_for_qc of a draft without lines
\* fails and changes nothing; of a draft with a line it sets the status to
\* pending_qc; of an invoice that is no longer a draft (a second submit) it
\* fails with the status error and changes nothing.
C12_SubmitForQc ==
    [][\A u \in Users, i \in InvoiceIds, c \in Customers \cup {""} :
        ( /\ i \in DOMAIN invoices
          /\ ~AccessDenied(u, i)
          /\ submit_for_qc(u, i, c) )
        => IF invoices[i].status = "draft" /\ LinesOf(i) = {}
           THEN resp'.code = 400 /\ resp'.err = "empty" /\ UNCHANGED db
           ELSE IF invoices[i].status = "draft"
           THEN resp'.code = 200 /\ invoices'[i].status = "pending_qc"
           ELSE resp'.code = 400 /\ resp'.err = "status" /\ UNCHANGED db
    ]_vars

\* A second submit_for_qc was refused: the only invoice is in pending_qc.
C12_Witness ==
    /\ resp = Response("submit_for_qc", 400, "status")
    /\ Cardinality(DOMAIN invoices) = 1
    /\ \A i \in DOMAIN invoices : invoices[i].status = "pending_qc"

\* C13: a qc_approve of an invoice that is not in pending_qc, has no customer
\* code or has no lines is answered with an error, sends nothing to the ERP
\* and changes no invoice, line, serial or cache row.
C13_ApproveRefusedWithoutErp ==
    [][\A u \in Users, i \in InvoiceIds :
        ( /\ i \in DOMAIN invoices
          /\ \/ invoices[i].status # "pending_qc"
             \/ invoices[i].customer_code = NoCustomer
             \/ LinesOf(i) = {}
          /\ qc_approve_invoice(u, i) )
        => /\ resp'.code >= 400
           /\ erpPost' = <<>>
           /\ UNCHANGED db
    ]_vars

\* A pending_qc invoice that still has its customer was emptied by
\* remove_line_item, and its approval was refused for having no lines.
C13_Witness ==
    /\ resp = Response("qc_approve", 400, "empty")
    /\ Cardinality(DOMAIN invoices) = 1
    /\ \A i \in DOMAIN invoices :
        /\ invoices[i].status = "pending_qc"
        /\ invoices[i].customer_code # NoCustomer
        /\ LinesOf(i) = {}

\* C14: when qc_approve posts a pending_qc invoice with a customer and lines
\* and the ERP answers 201, the invoice becomes posted and stores the DocEntry
\* and the DocTotal of the ERP's answer.
C14_ApproveStoresReferenceAndTotal ==
    [][\A u \in Users, i \in InvoiceIds :
        ( /\ i \in DOMAIN invoices
          /\ invoices[i].status = "pending_qc"
          /\ invoices[i].customer_code # NoCustomer
          /\ LinesOf(i) # {}
          /\ qc_approve_invoice(u, i)
          /\ erpPost' # <<>>
          /\ erpPost'[1].outcome = "201" )
        => /\ invoices'[i].status = "posted"
           /\ invoices'[i].sap_doc_entry = ErpCreated(i).DocEntry
           /\ invoices'[i].total_amount = ErpCreated(i).DocTotal
    ]_vars

\* C15: lookup_serial answers from the cache, leaving the cache as it is,
\* exactly when the serial has a cache row less than one hour old (half an
\* hour: cached; one hour: not cached); otherwise the answer comes from the
\* ERP, and a successful one leaves exactly one row for the serial, holding
\* the ERP's data and the current time.
C15_CacheWindow ==
    [][\A sn \in Serials :
        lookup_serial(sn) =>
            LET young == \E c \in CachedLookup(sn) : now - c.last_updated < HourTicks
                rows == {c \in cache' : c.serial_number = sn}
            IN /\ (resp'.err = "cached") <=> young
               /\ young => resp'.code = 200 /\ UNCHANGED db
               /\ (~young /\ resp'.code = 200) =>
                    /\ Cardinality(rows) = 1
                    /\ \A c \in rows :
                        /\ c.last_updated = now
                        /\ c.item_code = ErpCatalogue[sn].ItemCode
                        /\ c.warehouse_code = ErpCatalogue[sn].WhsCode
                    /\ {c \in cache' : c.serial_number # sn}
                         = {c \in cache : c.serial_number # sn}
    ]_vars

\* A lookup half an hour after caching was answered from the cache.
C15_Witness_Cached ==
    /\ resp = Response("lookup_serial", 200, "cached")
    /\ \E c \in cache : now - c.last_updated = 1

\* A lookup one hour after caching went to the ERP and refreshed the row: the
\* first cache row, written when the clock stood at 0, carries the time 2.
C15_Witness ==
    /\ resp = Response("lookup_serial", 200, "")
    /\ now = HourTicks
    /\ \E c \in cache : c.id = 1 /\ c.last_updated = now

\* C16: whenever create_invoice sends a payload to the ERP, every cache row it
\* built the payload from is, after the request, less than one hour old: it
\* was young enough already or the request refreshed it.
C16_NoStaleCacheRowUsed ==
    [][\A u \in Users, r \in DirectRequests :
        ( /\ erpPost' # <<>>
          /\ create_invoice(u, r.customer_code, r.serial_numbers) )
        => \A k \in 1..Len(r.serial_numbers) :
             \A c \in cache' :
                c.serial_number = r.serial_numbers[k]
                    => now - c.last_updated < HourTicks
    ]_vars

\* The responses that report a failure of the ERP: the error answer and the
\* answer carrying fallback data.
ErpFailureResponse(r) == r.err \in {"sap", "offline"}

\* C17: get_business_partners, validate_serial_number and lookup_serial
\* answer every failure of the ERP with a successful response.
C17_ReadsDegradeOnErpFailure ==
    ( /\ resp.op \in {"get_business_partners", "validate_serial_number", "lookup_serial"}
      /\ ErpFailureResponse(resp) )
    => resp.code = 200

\* C18: a create_invoice whose body passes the checks and whose serials form
\* one document line reaches the ERP step; it then leaves exactly one new
\* invoice: in status created with the ERP's DocEntry when the ERP answered
\* 201, in status failed with the error text stored otherwise, never in
\* status draft.
C18_DirectInvoiceCreatedOrFailed ==
    [][\A u \in Users, r \in Buildable :
        ( /\ resp'.op = "create_invoice"
          /\ Len(ItemsData(r.serial_numbers, <<>>)) = 1
          /\ create_invoice(u, r.customer_code, r.serial_numbers) )
        => LET new == DOMAIN invoices' \ DOMAIN invoices
           IN /\ Cardinality(new) = 1
              /\ \A i \in new :
                    IF erpPost' # <<>> /\ erpPost'[1].outcome = "201"
                    THEN /\ invoices'[i].status = "created"
                         /\ invoices'[i].sap_doc_entry = ErpCreated(i).DocEntry
                    ELSE /\ invoices'[i].status = "failed"
                         /\ invoices'[i].sap_response # ""
    ]_vars

\* C19: a request to add_line_item, remove_line_item, clear_all_items,
\* submit_for_qc, qc_reject or create that is answered with anything but
\* success leaves the invoices, lines, serial rows and cache rows as they were.
C19_ErrorsLeaveDatabase ==
    [][( /\ resp'.op \in {"add_line_item", "remove_line_item", "clear_all_items",
                          "submit_for_qc", "qc_reject", "create"}
         /\ resp'.code # 200 )
       => UNCHANGED db
    ]_vars

\* add_line_item refused a serial of another customer, after it had staged
\* the line and the serial row: the draft has a customer and a line.
C19_Witness ==
    /\ resp = Response("add_line_item", 400, "customer_locked")
    /\ \E i \in DOMAIN invoices :
        invoices[i].customer_code # NoCustomer /\ LinesOf(i) # {}

\* Every committed line owns exactly one serial row: add_line_item and create
\* write one line per serial, and create_invoice, which groups, never commits.
OneSerialPerLine == \A l \in lines : Cardinality(SerialsOfLine(l)) = 1

\* C20: a successful remove_line_item deletes exactly the targeted serial
\* row; it deletes a line exactly when that line owned the targeted row and
\* owns no other; every other serial row stays, and no invoice row (the
\* customer code in particular) changes.
C20_RemoveDeletesOnlyTarget ==
    [][\A u \in Users, i \in InvoiceIds, item_id \in RowIds :
        ( /\ resp'.op = "remove_line_item"
          /\ resp'.code = 200
          /\ remove_line_item(u, i, item_id) )
        => LET target == {s \in serials : s.id = item_id}
               others(l) == {s \in serials : s.invoice_line_id = l.id /\ s.id # item_id}
               owning(l) == \E s \in target : s.invoice_line_id = l.id
           IN /\ serials' = serials \ target
              /\ lines' \subseteq lines
              /\ \A l \in lines : (l \notin lines') <=> (owning(l) /\ others(l) = {})
              /\ invoices' = invoices
    ]_vars

\* One of two serials of a draft was removed: the other one and its line are
\* still there, and so is the customer.
C20_Witness ==
    /\ resp = Response("remove_line_item", 200, "")
    /\ nextSerialId = 3
    /\ \E i \in DOMAIN invoices :
        /\ Cardinality(SerialsOf(i)) = 1
        /\ Cardinality(LinesOf(i)) = 1
        /\ invoices[i].customer_code # NoCustomer

\* The only serial of a draft was removed: the draft is empty and keeps its
\* customer.
C20_Witness_Emptied ==
    /\ resp = Response("remove_line_item", 200, "")
    /\ Cardinality(DOMAIN invoices) = 1
    /\ \A i \in DOMAIN invoices :
        LinesOf(i) = {} /\ SerialsOf(i) = {} /\ invoices[i].customer_code # NoCustomer

\* C21: after a successful add_line_item the draft has at most one line per
\* (item code, warehouse code): a serial whose item and warehouse match a
\* line of the draft does not get a second line.
C21_OneLinePerItemAndWarehouse ==
    [][\A u \in Users, i \in InvoiceIds, sn \in Serials :
        ( /\ resp'.op = "add_line_item"
          /\ resp'.code = 200
          /\ add_line_item(u, i, sn) )
        => \A l, m \in {x \in lines' : x.invoice_id = i} :
              (l.item_code = m.item_code /\ l.warehouse_code = m.warehouse_code)
                  => l = m
    ]_vars

\* C22: clear_all_items by a requester with access, on an invoice in status
\* draft or pending_qc: with at least one line it deletes every line and
\* every serial row of that invoice, unsets its customer, keeps its status and
\* leaves every other invoice, line, serial row and cache row as it was;
\* without lines it answers 400 and changes nothing.
C22_ClearAllItems ==
    [][\A u \in Users, i \in InvoiceIds :
        ( /\ i \in DOMAIN invoices
          /\ invoices[i].user_id = u.id \/ u.role \in {"admin", "manager"}
          /\ invoices[i].status \in Mutable
          /\ clear_all_items(u, i) )
        => LET own_lines == {l \in lines : l.invoice_id = i}
               own_serials ==
                   {s \in serials : \E l \in own_lines : s.invoice_line_id = l.id}
           IN IF own_lines = {}
              THEN resp'.code = 400 /\ UNCHANGED db
              ELSE /\ resp'.code = 200
                   /\ lines' = lines \ own_lines
                   /\ serials' = serials \ own_serials
                   /\ invoices' = [invoices EXCEPT ![i].customer_code = NoCustomer]
                   /\ cache' = cache
    ]_vars

\* An invoice was cleared while another one had a line: the cleared one has
\* neither lines nor customer, the other one still has its line.
C22_Witness ==
    /\ resp = Response("clear_all_items", 200, "")
    /\ \E i, j \in DOMAIN invoices :
        /\ i # j
        /\ LinesOf(i) = {} /\ invoices[i].customer_code = NoCustomer
        /\ LinesOf(j) # {} /\ SerialsOf(j) # {}

\* C23: qc_reject of an invoice that is not in pending_qc is answered with an
\* error and changes nothing; of a pending_qc invoice, by a requester with the
\* qc_approval permission, it sets the status to rejected and the notes to the
\* given reason (the default text when the request gives none) and changes no
\* other field, line, serial row or cache row.
C23_QcReject ==
    [][\A u \in Users, i \in InvoiceIds, reason \in {Null, "", "damaged"} :
        ( /\ i \in DOMAIN invoices
          /\ qc_reject_invoice(u, i, reason) )
        => IF invoices[i].status # "pending_qc"
           THEN resp'.code >= 400 /\ UNCHANGED db
           ELSE IF "qc_approval" \in u.perms
           THEN /\ resp'.code = 200
                /\ invoices' =
                     [invoices EXCEPT
                        ![i].status = "rejected",
                        ![i].notes = "Rejected by QC: " \o
                            (IF reason = Null THEN "No reason provided" ELSE reason)]
                /\ UNCHANGED <<lines, serials, cache>>
           ELSE resp'.code = 403 /\ UNCHANGED db
    ]_vars

\* A pending_qc invoice was rejected without a reason: it carries the default
\* text and still has its customer, line and serial row.
C23_Witness ==
    /\ resp = Response("qc_reject", 200, "")
    /\ \E i \in DOMAIN invoices :
        /\ invoices[i].status = "rejected"
        /\ invoices[i].notes = "Rejected by QC: No reason provided"
        /\ invoices[i].customer_code # NoCustomer
        /\ LinesOf(i) # {} /\ SerialsOf(i) # {}

\* The requester is neither the owner of invoice i nor an admin or manager.
Stranger(u, i) == invoices[i].user_id # u.id /\ u.role \notin {"admin", "manager"}
Refused403 == resp'.code = 403 /\ UNCHANGED db

\* C24: add_line_item, remove_line_item, clear_all_items, submit_for_qc and
\* delete_line_item answer a requester who is neither owner nor admin or
\* manager with 403 and change nothing; qc_approve and qc_reject answer a
\* requester without the qc_approval permission with 403 and change nothing.
C24_AccessDenied403 ==
    [][/\ \A u \in Users, i \in DOMAIN invoices :
            Stranger(u, i) =>
                /\ \A sn \in Serials \cup {""} : add_line_item(u, i, sn) => Refused403
                /\ \A item_id \in RowIds : remove_line_item(u, i, item_id) => Refused403
                /\ clear_all_items(u, i) => Refused403
                /\ \A c \in Customers \cup {""} : submit_for_qc(u, i, c) => Refused403
                /\ \A l \in LinesOf(i) : delete_line_item(u, l.id) => Refused403
       /\ \A u \in Users, i \in DOMAIN invoices :
            "qc_approval" \notin u.perms =>
                /\ qc_approve_invoice(u, i) => Refused403
                /\ \A reason \in {Null, "", "damaged"} :
                        qc_reject_invoice(u, i, reason) => Refused403
    ]_vars

\* C25: a cleanup_empty_drafts that succeeds deletes exactly the invoices of
\* the requesting user that are in status draft and have no lines; every other
\* invoice stays as it was, and so do all lines, serial rows and cache rows.
C25_CleanupDeletesOwnEmptyDrafts ==
    [][\A u \in Users :
        ( /\ resp'.op = "cleanup_empty_drafts"
          /\ resp'.code = 200
          /\ cleanup_empty_drafts(u) )
        => LET deleted == DOMAIN invoices \ DOMAIN invoices'
           IN /\ deleted =
                    {i \in DOMAIN invoices :
                        /\ invoices[i].user_id = u.id
                        /\ invoices[i].status = "draft"
                        /\ {l \in lines : l.invoice_id = i} = {}}
              /\ DOMAIN invoices' \subseteq DOMAIN invoices
              /\ \A i \in DOMAIN invoices' : invoices'[i] = invoices[i]
              /\ UNCHANGED <<lines, serials, cache>>
    ]_vars

\* A cleanup deleted an invoice and left the empty draft of another user.
C25_Witness ==
    /\ resp = Response("cleanup_empty_drafts", 200, "")
    /\ nextInvoiceId = 3
    /\ Cardinality(DOMAIN invoices) = 1
    /\ \A i \in DOMAIN invoices :
        invoices[i].status = "draft" /\ LinesOf(i) = {}

\* A cleanup left the requester's own draft that has a line.
C25_Witness_KeptWithLine ==
    /\ resp = Response("cleanup_empty_drafts", 200, "")
    /\ nextInvoiceId = 3
    /\ Cardinality(DOMAIN invoices) = 1
    /\ \A i \in DOMAIN invoices :
        invoices[i].status = "draft" /\ LinesOf(i) # {}

\* C26: the cache never holds two rows for one serial number; a lookup_serial
\* answered by the ERP for a serial that has a row overwrites that row (same
\* id, the ERP's attributes, the current time) and adds none; for a serial
\* without a row it adds exactly one.
C26_OneCacheRowPerSerial ==
    [][/\ \A c, d \in cache' : c.serial_number = d.serial_number => c = d
       /\ \A sn \in Serials :
            ( /\ resp' = Response("lookup_serial", 200, "")
              /\ lookup_serial(sn) )
            => LET before == {c \in cache : c.serial_number = sn}
                   after == {c \in cache' : c.serial_number = sn}
               IN /\ Cardinality(cache') =
                        Cardinality(cache) + (IF before = {} THEN 1 ELSE 0)
                  /\ {c.id : c \in before} \subseteq {c.id : c \in after}
                  /\ \A c \in after :
                        /\ c.last_updated = now
                        /\ c.item_code = ErpCatalogue[sn].ItemCode
                        /\ c.warehouse_code = ErpCatalogue[sn].WhsCode
                        /\ c.branch_id = ErpCatalogue[sn].BPLid
    ]_vars

\* The row that create wrote for a serial (without a branch) was overwritten
\* by a lookup one hour later: it is still the only row, and it carries the
\* ERP's branch and the current time.
C26_Witness ==
    /\ resp = Response("lookup_serial", 200, "")
    /\ now = HourTicks
    /\ Cardinality(cache) = 1
    /\ \A c \in cache :
        /\ c.last_updated = now
        /\ c.branch_id = ErpCatalogue[c.serial_number].BPLid
        /\ \E s \in serials : s.serial_number = c.serial_number /\ s.bpl_id = 5

\* C27: create_draft by a requester with the invoice_creation permission adds
\* one invoice, in status draft, owned by the requester, without customer,
\* lines or serial rows, and changes nothing else; without the permission it
\* answers 403 and changes nothing.
C27_CreateDraft ==
    [][\A u \in Users :
        ( /\ resp'.op = "create_draft"
          /\ create_draft(u) )
        => IF "invoice_creation" \notin u.perms
           THEN resp'.code = 403 /\ UNCHANGED db
           ELSE LET new == DOMAIN invoices' \ DOMAIN invoices
                IN /\ resp'.code = 200
                   /\ Cardinality(new) = 1
                   /\ \A i \in new :
                        /\ invoices'[i].status = "draft"
                        /\ invoices'[i].user_id = u.id
                        /\ invoices'[i].customer_code = NoCustomer
                        /\ {l \in lines' : l.invoice_id = i} = {}
                   /\ \A i \in DOMAIN invoices :
                        i \in DOMAIN invoices' /\ invoices'[i] = invoices[i]
                   /\ UNCHANGED <<lines, serials, cache>>
    ]_vars

\* A draft was created next to an invoice that has a customer and a line.
C27_Witness ==
    /\ resp = Response("create_draft", 200, "")
    /\ \E i, j \in DOMAIN invoices :
        /\ i = nextInvoiceId - 1 /\ j < i
        /\ invoices[i].status = "draft" /\ invoices[i].customer_code = NoCustomer
        /\ LinesOf(i) = {}
        /\ invoices[j].customer_code # NoCustomer /\ LinesOf(j) # {}

\* A requester without the permission was refused.
C27_Witness_Refused ==
    resp = Response("create_draft", 403, "access")

\* Customer codes of the items in the session's list.
SessionCustomers ==
    {session.invoice_items[k].customer_code : k \in 1..Len(session.invoice_items)}

\* C28 as stated: add_serial_item accepts and appends every serial, one that
\* is already in the session's list included.
C28_SessionAcceptsEverySerial ==
    [][\A data \in SessionRequests :
        ( /\ data.serial_number # ""
          /\ resp'.op = "add_serial_item"
          /\ add_serial_item(data) )
        => /\ resp'.code = 200
           /\ Len(session'.invoice_items) = Len(session.invoice_items) + 1
    ]_vars

\* C28, corrected: add_serial_item refuses a serial that is already in the
\* session's list with 400 and leaves the list as it is; every other serial it
\* appends, whatever the customers of the items already in the list.
C28_SessionRejectsDuplicateOnly ==
    [][\A data \in SessionRequests :
        ( /\ data.serial_number # ""
          /\ resp'.op = "add_serial_item"
          /\ add_serial_item(data) )
        => LET items == session.invoice_items
               listed == \E k \in 1..Len(items) :
                            items[k].serial_number = data.serial_number
           IN IF listed
              THEN resp'.code = 400 /\ session'.invoice_items = items
              ELSE /\ resp'.code = 200
                   /\ Len(session'.invoice_items) = Len(items) + 1
                   /\ SubSeq(session'.invoice_items, 1, Len(items)) = items
                   /\ session'.invoice_items[Len(items) + 1].serial_number
                        = data.serial_number
    ]_vars

\* A serial of customer C2 was appended to a list holding an item of customer
\* C1.
C28_Witness ==
    /\ resp = Response("add_serial_item", 200, "")
    /\ Len(session.invoice_items) = 2
    /\ session.invoice_items[1].customer_code = "C1"
    /\ session.invoice_items[2].customer_code = "C2"

\* A serial that is in the list was refused.
C28_Witness_Duplicate ==
    /\ resp = Response("add_serial_item", 400, "duplicate")
    /\ Len(session.invoice_items) > 0

\* The serial row generate_sap_invoice_json visits last: of the lines of the
\* invoice that have a serial row the one with the highest id, and of its
\* serial rows the one with the highest id.
LastSerialVisited(i) ==
    LET with_serials == {l \in LinesOf(i) : SerialsOfLine(l) # {}}
        last_line == CHOOSE l \in with_serials : \A m \in with_serials : m.id <= l.id
    IN CHOOSE s \in SerialsOfLine(last_line) :
            \A r \in SerialsOfLine(last_line) : r.id <= s.id

\* C29: the branch id of the payload generate_sap_invoice_json builds for an
\* invoice is the bpl_id of the last serial row it visits, whatever the
\* invoice's own bpl_id is.
C29_PayloadBranchFromLastSerial ==
    \A i \in DOMAIN invoices :
        SerialsOf(i) # {}
            => generate_sap_invoice_json(i).BPL_IDAssignedToInvoice
                    = LastSerialVisited(i).bpl_id

\* Two invoices with the same bpl_id whose payloads carry different branch
\* ids, one of them different from the invoice's own.
C29_Witness ==
    \E i, j \in DOMAIN invoices :
        /\ SerialsOf(i) # {} /\ SerialsOf(j) # {}
        /\ invoices[i].bpl_id = invoices[j].bpl_id
        /\ generate_sap_invoice_json(i).BPL_IDAssignedToInvoice
             # generate_sap_invoice_json(j).BPL_IDAssignedToInvoice
        /\ generate_sap_invoice_json(j).BPL_IDAssignedToInvoice # invoices[j].bpl_id

\* C30: for every draft, the ERP creates an invoice in answer to qc_approve at
\* most once, also when two qc_approve requests for the same pending_qc draft
\* are handled at the same time and when the commit after a successful ERP
\* post fails.
C30_ErpCreatesAtMostOnce == \A i \in InvoiceIds : sapDocs[i] <= 1

\* The same, said of the requests: no qc_approve posts a payload for a draft
\* for which the ERP has already created an invoice.
C30_NoPostAfterSuccess ==
    [][\A w \in Workers, o \in PostOutcomes :
          (approve_post(w, o) /\ PostSent(o))
              => sapDocs[approving[w].invoice_id] = 0]_vars

\* The database in which the interleaved requests start is one the handlers
\* produce.
ConcStartReached ==
    /\ invoices = ConcInvoices
    /\ lines = ConcLines
    /\ serials = ConcSerials
    /\ ids = <<2, 2, 2>>

\* C31: when add_line_item requests for the same draft and the same serial
\* number are handled at the same time, each running its duplicate check
\* before the other commits, at most one attaches the serial: once all
\* requests have completed, every draft holds every serial at most once.
C31_InterleavedAddsAttachOnce ==
    (\A w \in Workers : adding[w].pc = "idle")
        => \A i \in DOMAIN invoices, sn \in Serials :
              Cardinality(ExistingItem(i, sn)) <= 1

\* C32: after any sequence of add_serial_item, remove_serial_item and
\* clear_session_items in one session, the ids of the items of the session
\* list are pairwise distinct.
C32_SessionIdsDistinct ==
    \A j, k \in 1..Len(session.invoice_items) :
        session.invoice_items[j].id = session.invoice_items[k].id => j = k

\* C32, second part: every successful remove_serial_item shortens the session
\* list by exactly one item.
C32_RemoveShortensByOne ==
    [][\A item_id \in 1..MaxSessionItems :
          (resp'.op = "remove_serial_item" /\ remove_serial_item(item_id)
              /\ resp'.code = 200)
            => Len(session'.invoice_items) = Len(session.invoice_items) - 1]_vars

\* The serial numbers of a payload, document line after document line.
PayloadSerialNumbers(payload) ==
    Concat([g \in 1..Len(payload.DocumentLines) |->
              [n \in 1..Len(payload.DocumentLines[g].SerialNumbers) |->
                  payload.DocumentLines[g].SerialNumbers[n].InternalSerialNumber]])

RECURSIVE SumOfQuantities(_)
SumOfQuantities(document_lines) ==
    IF document_lines = <<>> THEN 0
    ELSE Head(document_lines).Quantity + SumOfQuantities(Tail(document_lines))

\* C33: the payload that qc_approve sends to the ERP contains every serial
\* attached to the draft exactly once and no other serial, the sum of its
\* document-line quantities is the number of serial attachments of the
\* draft, and its CardCode is the draft's customer code at the approval.
C33_ApprovedPayloadMatchesDraft ==
    [][\A u \in Users, i \in InvoiceIds :
          (resp'.op = "qc_approve" /\ qc_approve_invoice(u, i) /\ erpPost' # <<>>)
            => LET payload == erpPost'[1].payload
                   sent == PayloadSerialNumbers(payload)
               IN /\ {sent[k] : k \in 1..Len(sent)}
                        = {s.serial_number : s \in SerialsOf(i)}
                  /\ \A j, k \in 1..Len(sent) : sent[j] = sent[k] => j = k
                  /\ SumOfQuantities(payload.DocumentLines) = Cardinality(SerialsOf(i))
                  /\ payload.CardCode = invoices[i].customer_code]_vars

\* A qc_approve has sent a payload with two serials.
C33_Witness ==
    /\ erpPost # <<>>
    /\ erpPost[1].via = "qc_approve"
    /\ Len(PayloadSerialNumbers(erpPost[1].payload)) = 2

\* The serial rows a step has added for serial sn.
AttachedRows(sn) == {s \in serials' \ serials : s.serial_number = sn}

\* The checks of add_line_item that come before the ERP validation pass.
ReachesValidation(u, i, sn) ==
    /\ i \in DOMAIN invoices
    /\ invoices[i].user_id = u.id \/ u.role \in {"admin", "manager"}
    /\ invoices[i].status \in {"draft", "pending_qc"}
    /\ sn # ""
    /\ \A s \in SerialsOf(i) : s.serial_number # sn

\* C34: add_line_item attaches the serial even when the ERP validation does
\* not succeed: when the ERP reports the serial as not found, answers with a
\* non-200 status or raises, the serial is attached with validation_status
\* failed, a non-empty validation_error and item code UNKNOWN; when the ERP is
\* unconfigured or the login fails, it is attached with validation_status
\* validated and item code UNKNOWN.
C34_AttachesWithoutValidation ==
    [][\A u \in Users, i \in InvoiceIds, sn \in Serials,
          o \in {"notfound", "http_error", "exception", "offline"} :
          (resp'.op = "add_line_item" /\ ReachesValidation(u, i, sn)
              /\ AttachSerial(i, sn, o))
            => \E s \in AttachedRows(sn) :
                  /\ s.item_code = "UNKNOWN"
                  /\ o = "offline" => s.validation_status = "validated"
                  /\ o # "offline" => /\ s.validation_status = "failed"
                                      /\ s.validation_error # ""]_vars

\* C34, the part about the rows that are attached: a row attached after an
\* unsuccessful validation has item code UNKNOWN and the status of its
\* outcome, and every attached row has a validation_error exactly when its
\* validation_status is failed.
C34_AttachedRowsCarryValidation ==
    [][\A u \in Users, i \in InvoiceIds, sn \in Serials, o \in SerialQueryOutcomes :
          (resp'.op = "add_line_item" /\ ReachesValidation(u, i, sn)
              /\ AttachSerial(i, sn, o))
            => \A s \in AttachedRows(sn) :
                  /\ o # "found" => s.item_code = "UNKNOWN"
                  /\ o = "offline" => s.validation_status = "validated"
                  /\ o \in {"notfound", "http_error", "exception"}
                        => s.validation_status = "failed"
                  /\ (s.validation_error # "") <=> (s.validation_status = "failed")]_vars

\* A serial was attached after an unsuccessful validation.
C34_Witness_Attached ==
    /\ resp = Response("add_line_item", 200, "")
    /\ \E s \in serials : s.item_code = "UNKNOWN" /\ s.validation_status = "failed"

\* C35: in every reachable state, every draft in status posted has a
\* non-empty customer code, at least one line and a stored submission payload.
C35_PostedIsComplete ==
    \A i \in DOMAIN invoices :
        invoices[i].status = "posted"
            => /\ invoices[i].customer_code # NoCustomer
               /\ LinesOf(i) # {}
               /\ invoices[i].json_payload # <<>>

\* A draft has been posted.
C35_Witness == \E i \in DOMAIN invoices : invoices[i].status = "posted"

\* C36: in every reachable state, every persisted InvoiceLine has at least one
\* serial attached and its quantity is the number of serials attached to it;
\* every line of a draft in status draft or pending_qc carries exactly one
\* serial, with quantity 1.
C36_LineQuantityIsSerialCount ==
    \A l \in lines :
        /\ SerialsOfLine(l) # {}
        /\ l.quantity = Cardinality(SerialsOfLine(l))
        /\ invoices[l.invoice_id].status \in {"draft", "pending_qc"}
              => /\ Cardinality(SerialsOfLine(l)) = 1
                 /\ l.quantity = 1
                 /\ \A s \in SerialsOfLine(l) : s.quantity = 1

\* A remove_line_item has succeeded and lines remain.
C36_Witness ==
    /\ resp = Response("remove_line_item", 200, "")
    /\ lines # {}

\* The line numbers of the lines of every draft are pairwise distinct.
DistinctLineNumbers ==
    \A l, m \in lines :
        (l.invoice_id = m.invoice_id /\ l.line_number = m.line_number) => l.id = m.id

\* C37: under sequential requests, after any sequence of add_line_item,
\* remove_line_item, delete_line_item and clear_all_items, the line numbers of
\* the lines of a draft are pairwise distinct, and each line that
\* add_line_item adds gets a number greater than every line number the draft
\* holds at that moment.
C37_LineNumbersGrow ==
    [][ /\ DistinctLineNumbers'
        /\ \A u \in Users, i \in InvoiceIds, sn \in Serials :
              (resp'.op = "add_line_item" /\ lines' # lines
                  /\ (\E s \in serials' \ serials : s.serial_number = sn)
                  /\ (\E l \in lines' \ lines : l.invoice_id = i)
                  /\ add_line_item(u, i, sn))
                => \A l \in lines' \ lines, m \in LinesOf(i) :
                      l.line_number > m.line_number ]_vars

\* add_line_item has added a line to a draft from which a line with a lower
\* number had been removed: the numbers in use do not start at 1.
C37_Witness ==
    /\ resp = Response("add_line_item", 200, "")
    /\ \E i \in DOMAIN invoices :
          /\ Cardinality(LinesOf(i)) = 2
          /\ \A l \in LinesOf(i) : l.line_number > 1

\* C38: lookup_serial leaves every cache entry unchanged, attributes and
\* last_updated, when it answers from a fresh cache entry, when the ERP
\* reports the serial as not found and when the ERP call fails: a stale
\* entry is neither deleted nor refreshed by a failed lookup.
C38_FailedLookupKeepsCache ==
    [][\A sn \in Serials :
          (resp'.op = "lookup_serial" /\ lookup_serial(sn)
              /\ (resp'.err = "cached" \/ resp'.code \in {404, 500}))
            => cache' = cache]_vars

\* A lookup has failed while the cache holds a stale entry.
C38_Witness ==
    /\ resp.op = "lookup_serial"
    /\ resp.code \in {404, 500}
    /\ \E c \in cache : ~Fresh(c)

\* A lookup was answered from a fresh cache entry.
C38_Witness_Cached == resp = Response("lookup_serial", 200, "cached")

\* Serial row item_id exists and its line belongs to another invoice than i.
BelongsElsewhere(i, item_id) ==
    \E s \in serials, l \in lines :
        s.id = item_id /\ l.id = s.invoice_line_id /\ l.invoice_id # i

\* C39: remove_line_item called with an invoice id and the id of a serial
\* attachment that belongs to a different invoice fails with a 400 error and
\* leaves the lines and serial attachments of both invoices unchanged.
C39_RemoveRefusesForeignItem ==
    [][\A u \in Users, i \in InvoiceIds, item_id \in RowIds :
          (resp'.op = "remove_line_item"
              /\ i \in DOMAIN invoices
              /\ (invoices[i].user_id = u.id \/ u.role \in {"admin", "manager"})
              /\ BelongsElsewhere(i, item_id)
              /\ remove_line_item(u, i, item_id))
            => /\ resp'.code = 400
               /\ lines' = lines
               /\ serials' = serials
               /\ invoices' = invoices]_vars

\* remove_line_item has refused an item of another invoice, which still
\* holds its row.
C39_Witness ==
    /\ resp = Response("remove_line_item", 400, "not_owned")
    /\ serials # {}
====
